---- MODULE Spec2Model ----
(***************************************************************************)
(* The tuning loop and trial lifecycle of autorecsys/searcher/core/tuner.py *)
(* (BaseTuner, PipeTuner) as a state machine.                              *)
(*                                                                         *)
(* A tuner instance is one process lifetime: it is constructed             *)
(* (BaseTuner.__init__, then PipeTuner.__init__), may run search(), may be *)
(* asked for get_best_models(), and ends.  Instances run one after the     *)
(* other against the same file system, so a later instance sees what an    *)
(* earlier one left on disk.                                               *)
(*                                                                         *)
(* Collaborators that tuner.py only calls are modelled at their interface: *)
(*   - the Oracle is a recording double: every call on it is appended to   *)
(*     `log`, create_trial answers RUNNING, IDLE or STOPPED as the         *)
(*     environment chooses, end_trial/update_trial update the trial table; *)
(*   - create_directory creates a directory when it is absent;             *)
(*   - Stateful.save/reload write and read get_state()/set_state();        *)
(*   - a trained model is the weights its training produced.               *)
(* BaseTuner is "subclassed to create new tuners" (its docstring): kind    *)
(* "Stub" is such a subclass whose run_trial/save_weights/load_model hooks *)
(* are the plain test doubles (train nothing, write and read the weights); *)
(* kind "RunOnly" is a subclass that overrides run_trial and nothing else.  *)
(***************************************************************************)
EXTENDS Integers, Sequences, FiniteSets, TLC

\* ------------------------------------------------------------ bounds
MaxTuners == 2      \* tuner instances (process lifetimes) in one behaviour
MaxTrials == 3      \* create_trial answers the Oracle gives in one behaviour
MaxTunerId == 1     \* tuner_id arguments are None or 0..MaxTunerId
MaxModels == 2      \* num_models arguments are 1..MaxModels
MaxWorkerTrials == 2  \* create_trial answers given to concurrent workers

Tuners == 1..MaxTuners
TrialIds == 1..MaxTrials
TunerIds == 0..MaxTunerId

\* ------------------------------------------------------------ values
None == "None"                                \* an absent string argument
NoArg == <<>>                                 \* an absent (None) tuner_id
Kinds == {"Base", "Pipe", "Stub", "RunOnly"}
\* The kinds whose save_weights and load_model are BaseTuner's own: BaseTuner
\* and a subclass that overrides run_trial alone.
BaseHooks == {"Base", "RunOnly"}
Directories == {None}                         \* the directory argument
ProjectNames == {None, "proj"}                \* the project_name argument
NoHP == <<"None">>                            \* no hyperparameters sampled
NoFile == <<"NoFile">>
NoDir == <<"NoDir">>
Empty == <<"Empty">>                          \* a directory holding nothing
NoModel == <<"None">>                         \* Python's None as a model
NoState == <<"None">>
EmptyState == <<"{}">>                        \* BaseTuner.get_state(): {}

RUNNING == "RUNNING"
IDLE == "IDLE"
STOPPED == "STOPPED"
COMPLETED == "COMPLETED"

\* The weights training produced for trial `id`.
WeightsOf(id) == <<"weights", id>>

\* The hyperparameters the Oracle sampled for trial `id`: every trial is its
\* own point of the search space.
SampleOf(id) == <<"hp", id>>

\* ------------------------------------------------------------ state
VARIABLES
  pc,        \* pc[t]: where tuner instance t is
  self,      \* self[t]: the instance's attributes set by __init__
  err,       \* err[t]: the exception that left the instance's call, or None
  cur,       \* cur[t]: the trial search() holds (0: none)
  model,     \* model[t]: what run_trial returned for cur[t]
  tstate,    \* tstate[t]: what get_state() returns (a Stub's trial counter)
  restored,  \* restored[t]: the state reload() passed to set_state, or None
  best,      \* best[t]: the outcome of the last get_best_models call
  trials,    \* the Oracle's trial table, in creation order; trial_id = index
  log,       \* every call on the Oracle, the hooks, the Display and save
  fs,        \* the file system under the project roots
  lastSave,  \* lastSave[p][i]: get_state() at the last save of tuner_<i>.json in p
  lastIn     \* lastIn[p]: get_state() at the last save of any tuner file in p

vars == <<pc, self, err, cur, model, tstate, restored, best, trials, log, fs,
          lastSave, lastIn>>

\* ------------------------------------------------------------ file system
\* os.path.join(self.directory, self.project_name), after the defaults.
Paths == {<<".", "untitled_project">>, <<".", "proj">>}

EmptyFs ==
  [pdir  |-> [p \in Paths |-> FALSE],
   files |-> [p \in Paths |-> [i \in TunerIds |-> NoFile]],
   tdirs |-> [p \in Paths |-> [k \in TrialIds |-> NoDir]]]

\* autorecsys.utils.common.create_directory: create the directory if absent.
create_directory(f, p) == [f EXCEPT !.pdir[p] = TRUE]

\* BaseTuner.project_dir: the file system after the property was read.
project_dir(f, p) == create_directory(f, p)

\* Mutant of rmtree: only the files in the directory are removed, the trial
\* directories stay.
rmtree_FilesOnly(f, p) ==
  [f EXCEPT !.files[p] = [i \in TunerIds |-> NoFile]]

\* shutil.rmtree(project_dir)
rmtree(f, p) ==
  [f EXCEPT !.pdir[p] = FALSE,
            !.files[p] = [i \in TunerIds |-> NoFile],
            !.tdirs[p] = [k \in TrialIds |-> NoDir]]

\* BaseTuner.get_trial_dir: project_dir, then create trial_<id> if absent.
get_trial_dir(f, p, id) ==
  LET g == project_dir(f, p)
  IN  IF g.tdirs[p][id] = NoDir THEN [g EXCEPT !.tdirs[p][id] = Empty] ELSE g

\* Mutant of get_tuner_fname: the file name leaves out the tuner_id.
get_tuner_fname_NoId(p, tuner_id) == <<p, 0>>

\* BaseTuner._get_tuner_fname: the tuner_<tuner_id>.json the instance uses.
get_tuner_fname(p, tuner_id) == <<p, tuner_id>>

exists(f, fname) == f.files[fname[1]][fname[2]] # NoFile

\* What the project directory holds: os.listdir(project_dir).
Entries(f, p) ==
  {<<"tuner", i>> : i \in {j \in TunerIds : f.files[p][j] # NoFile}}
    \cup {<<"trial", k>> : k \in {j \in TrialIds : f.tdirs[p][j] # NoDir}}

\* ------------------------------------------------------------ helpers
Call(op, t, id) == [op |-> op, tuner |-> t, trial |-> id]

RECURSIVE SelectSeq2(_, _)
SelectSeq2(s, ops) ==
  IF s = <<>> THEN <<>>
  ELSE IF Head(s).op \in ops THEN <<Head(s)>> \o SelectSeq2(Tail(s), ops)
       ELSE SelectSeq2(Tail(s), ops)

\* The calls of tuner t among `ops`, in order.
CallsOf(t, ops) == SelectSeq(SelectSeq2(log, ops), LAMBDA c : c.tuner = t)

\* The calls about trial id among `ops`, in order.
CallsOn(id, ops) == SelectSeq(SelectSeq2(log, ops), LAMBDA c : c.trial = id)

NoSelf == [kind |-> None, oracleOk |-> TRUE, modelOk |-> TRUE,
           path |-> <<None, None>>, tuner_id |-> 0, overwrite |-> FALSE,
           entry |-> EmptyFs]

NoBest == [called |-> FALSE, n |-> 0, avail |-> 0, trials |-> <<>>, models |-> <<>>,
           err |-> None]

Init ==
  /\ pc = [t \in Tuners |-> "new"]
  /\ self = [t \in Tuners |-> NoSelf]
  /\ err = [t \in Tuners |-> None]
  /\ cur = [t \in Tuners |-> 0]
  /\ model = [t \in Tuners |-> NoModel]
  /\ tstate = [t \in Tuners |-> EmptyState]
  /\ restored = [t \in Tuners |-> NoState]
  /\ best = [t \in Tuners |-> NoBest]
  /\ trials = <<>>
  /\ log = <<>>
  /\ fs = EmptyFs
  /\ lastSave = [p \in Paths |-> [i \in TunerIds |-> NoState]]
  /\ lastIn = [p \in Paths |-> NoState]

\* ------------------------------------------------------------ tuner state
\* BaseTuner.get_state returns {}; a Stub overrides it with its own state.
get_state(kind, st) == IF kind = "Stub" THEN st ELSE EmptyState

\* BaseTuner.set_state does nothing; a Stub overrides it to take the state.
set_state(kind, st, new) == IF kind = "Stub" THEN new ELSE st

\* Stateful.save(fname): write get_state() to the file.
Stateful_save(f, fname, state) == [f EXCEPT !.files[fname[1]][fname[2]] = state]

\* Stateful.reload(fname): the state read back from the file.
Stateful_reload(f, fname) == f.files[fname[1]][fname[2]]

\* BaseTuner.save: the file system after save(); reading _get_tuner_fname
\* reads project_dir, which creates the project directory.
save(f, p, tuner_id, state) ==
  Stateful_save(project_dir(f, p), get_tuner_fname(p, tuner_id), state)

\* BaseTuner.reload: the state handed to set_state.
reload(f, p, tuner_id) == Stateful_reload(f, get_tuner_fname(p, tuner_id))

\* ------------------------------------------------------------ construction
Ended == {"done", "raised", "exited"}        \* "gone": a later one has started

\* Instances are constructed one after the other.
MayStart(t) == pc[t] = "new" /\ (IF t = 1 THEN TRUE ELSE pc[t - 1] \in Ended)

Raise(t, e) == /\ pc' = [pc EXCEPT ![t] = "raised"]
               /\ err' = [err EXCEPT ![t] = e]

\* A new instance is a new process: what the instances before it held in
\* memory, the Oracle double's recording included, is gone.
Fresh(v, t, mine, blank) ==
  [u \in Tuners |-> IF u = t THEN mine ELSE IF u < t THEN blank ELSE v[u]]

\* tuner.py:72-73 (and 84): the arguments and their defaults.  `entry` notes
\* the file system as it was when the constructor was entered.
init_args(t, kind, oracleOk, modelOk, directory, project_name, tuner_id, overwrite) ==
  /\ MayStart(t)
  /\ LET p == << IF directory = None THEN "." ELSE directory,
                 IF project_name = None THEN "untitled_project" ELSE project_name >>
     IN  self' = Fresh(self, t,
           [kind |-> kind, oracleOk |-> oracleOk, modelOk |-> modelOk,
            path |-> p,
            tuner_id |-> IF tuner_id # NoArg THEN tuner_id[1] ELSE 0,
            overwrite |-> overwrite,
            entry |-> fs], NoSelf)
  /\ tstate' = Fresh(tstate, t,
                 IF kind = "Stub" THEN <<"state", 0>> ELSE EmptyState, EmptyState)
  /\ pc' = Fresh(pc, t, "init_overwrite", "gone")
  /\ err' = Fresh(err, t, None, None)
  /\ cur' = Fresh(cur, t, 0, 0)
  /\ model' = Fresh(model, t, NoModel, NoModel)
  /\ restored' = Fresh(restored, t, NoState, NoState)
  /\ best' = Fresh(best, t, NoBest, NoBest)
  /\ log' = <<>>
  /\ UNCHANGED <<trials, fs, lastSave, lastIn>>

\* tuner.py:74-75: `overwrite and os.path.exists(self.project_dir)` reads the
\* project_dir property only when overwrite is set; the property creates the
\* directory, so it exists and is removed.
init_overwrite(t) ==
  /\ pc[t] = "init_overwrite"
  /\ fs' = IF self[t].overwrite
             THEN rmtree(project_dir(fs, self[t].path), self[t].path)
             ELSE fs
  /\ pc' = [pc EXCEPT ![t] = "init_oracle"]
  /\ UNCHANGED <<self, err, cur, model, tstate, restored, best, trials, log, lastSave, lastIn>>

\* tuner.py:77-79: the oracle is not an Oracle.
init_oracle_bad(t) ==
  /\ pc[t] = "init_oracle"
  /\ ~self[t].oracleOk
  /\ Raise(t, "ValueError")
  /\ UNCHANGED <<self, cur, model, tstate, restored, best, trials, log, fs, lastSave, lastIn>>

\* Oracle.set_project_dir(directory, project_name, overwrite): the Oracle
\* keeps the project's trials, or with overwrite starts without them.
set_project_dir(tr, p, overwrite) ==
  [k \in DOMAIN tr |->
     IF overwrite /\ tr[k].path = p THEN [tr[k] EXCEPT !.status = "DISCARDED"]
     ELSE tr[k]]

\* tuner.py:80-91: set_project_dir, get_space, update_space on the oracle.
init_oracle(t) ==
  /\ pc[t] = "init_oracle"
  /\ self[t].oracleOk
  /\ trials' = set_project_dir(trials, self[t].path, self[t].overwrite)
  /\ log' = log \o << Call("set_project_dir", t, 0), Call("get_space", t, 0),
                      Call("update_space", t, 0) >>
  /\ pc' = [pc EXCEPT ![t] = "init_reload"]
  /\ UNCHANGED <<self, err, cur, model, tstate, restored, best, fs, lastSave, lastIn>>

\* Where construction goes after BaseTuner.__init__ returns.
AfterBaseInit(t) == IF self[t].kind = "Pipe" THEN "init_pipe" ELSE "ready"

\* tuner.py:93-96: without overwrite, _get_tuner_fname is read (creating the
\* project directory) and an existing tuner file is reloaded.
init_reload(t) ==
  /\ pc[t] = "init_reload"
  /\ LET p == self[t].path
         i == self[t].tuner_id
         f == project_dir(fs, p)
     IN  IF self[t].overwrite
           THEN UNCHANGED <<fs, tstate, restored, log>>
           ELSE /\ fs' = f
                /\ IF exists(f, get_tuner_fname(p, i))
                     THEN /\ restored' = [restored EXCEPT ![t] = reload(f, p, i)]
                          /\ tstate' = [tstate EXCEPT ![t] =
                               set_state(self[t].kind, tstate[t], reload(f, p, i))]
                          /\ log' = Append(log, Call("reload", t, 0))
                     ELSE UNCHANGED <<tstate, restored, log>>
  /\ pc' = [pc EXCEPT ![t] = AfterBaseInit(t)]
  /\ UNCHANGED <<self, err, cur, model, best, trials, lastSave, lastIn>>

\* tuner.py:219-220: the model is neither a CFRecommender nor a CTRRecommender.
PipeTuner_init_bad(t) ==
  /\ pc[t] = "init_pipe"
  /\ ~self[t].modelOk
  /\ Raise(t, "TypeError")
  /\ UNCHANGED <<self, cur, model, tstate, restored, best, trials, log, fs, lastSave, lastIn>>

\* tuner.py:221-222
PipeTuner_init(t) ==
  /\ pc[t] = "init_pipe"
  /\ self[t].modelOk
  /\ pc' = [pc EXCEPT ![t] = "ready"]
  /\ UNCHANGED <<self, err, cur, model, tstate, restored, best, trials, log, fs, lastSave, lastIn>>

\* ------------------------------------------------------------ search
Statuses == {RUNNING, IDLE, STOPPED}      \* what create_trial may answer
Outputs == {"single", "multi"}            \* scoring outputs of one evaluation

\* Oracle.create_trial: a new trial record; only a RUNNING trial carries
\* sampled hyperparameters.
NewTrial(t, status, id) ==
  [ret |-> status, status |-> status,
   hp |-> IF status = RUNNING THEN SampleOf(id) ELSE NoHP, owner |-> t,
   path |-> self[t].path, metrics |-> <<>>, ends |-> 0]

\* Oracle.end_trial(trial_id, status): the trial record afterwards.
end_trial(trial, status) == [trial EXCEPT !.status = status, !.ends = @ + 1]

\* Oracle.update_trial(trial_id, metrics): the trial record afterwards.
update_trial(trial, metrics) == [trial EXCEPT !.metrics = Append(@, metrics)]

\* Mutant of AfterCreate: an IDLE answer leaves the loop like STOPPED.
AfterCreate_IdleBreaks(status) ==
  IF status \in {STOPPED, IDLE} THEN "done" ELSE "run_trial"

\* Mutant of AfterCreate: the IDLE test is missing, an IDLE trial is run.
AfterCreate_IdleRuns(status) ==
  IF status = STOPPED THEN "done" ELSE "run_trial"

\* Mutant of AfterCreate: the STOPPED test is missing, a STOPPED trial is run.
AfterCreate_StoppedRuns(status) ==
  IF status = IDLE THEN "loop" ELSE "run_trial"

\* tuner.py:101-108: where the loop goes on the status create_trial returned.
AfterCreate(status) ==
  IF status = STOPPED THEN "done"          \* break
  ELSE IF status = IDLE THEN "loop"        \* continue
  ELSE "run_trial"

\* tuner.py:99-106: one pass of the loop head: create_trial and the branch.
search(t, status) ==
  /\ pc[t] \in {"ready", "loop"}
  /\ Len(trials) < MaxTrials
  /\ trials' = Append(trials, NewTrial(t, status, Len(trials) + 1))
  /\ log' = Append(log, Call("create_trial", t, Len(trials) + 1))
  /\ cur' = [cur EXCEPT ![t] =
               IF AfterCreate(status) = "run_trial" THEN Len(trials) + 1 ELSE 0]
  /\ pc' = [pc EXCEPT ![t] = AfterCreate(status)]
  /\ UNCHANGED <<self, err, model, tstate, restored, best, fs, lastSave, lastIn>>

\* Mutant of run_trial_Base: search() swallows the error of run_trial and
\* asks the Oracle for another trial.
run_trial_Base_Retry(t) ==
  /\ pc[t] = "run_trial"
  /\ self[t].kind = "Base"
  /\ log' = Append(log, Call("run_trial", t, cur[t]))
  /\ pc' = [pc EXCEPT ![t] = "loop"]
  /\ cur' = [cur EXCEPT ![t] = 0]
  /\ UNCHANGED <<self, err, model, tstate, restored, best, trials, fs, lastSave, lastIn>>

\* tuner.py:111-112: BaseTuner.run_trial
run_trial_Base(t) ==
  /\ pc[t] = "run_trial"
  /\ self[t].kind = "Base"
  /\ log' = Append(log, Call("run_trial", t, cur[t]))
  /\ Raise(t, "NotImplementedError")
  /\ UNCHANGED <<self, cur, model, tstate, restored, best, trials, fs, lastSave, lastIn>>

\* tuner.py:230-232: PipeTuner.run_trial leaves by an exception before
\* update_trial: self.config is set nowhere in the class (AttributeError),
\* the name Recommender is bound nowhere in the module (NameError), or
\* model.train raises (TrainError).
PipeFailures == {"AttributeError", "NameError", "TrainError"}

\* Mutant of run_trial_Pipe_fail: the failed trial is reported to the Oracle as
\* COMPLETED on the way out (an on_trial_end in a finally clause).
run_trial_Pipe_fail_Ended(t, e) ==
  /\ pc[t] = "run_trial"
  /\ self[t].kind = "Pipe"
  /\ log' = Append(log, Call("run_trial", t, cur[t]))
  /\ trials' = [trials EXCEPT ![cur[t]] = end_trial(@, COMPLETED)]
  /\ Raise(t, e)
  /\ UNCHANGED <<self, cur, model, tstate, restored, best, fs, lastSave, lastIn>>

run_trial_Pipe_fail(t, e) ==
  /\ pc[t] = "run_trial"
  /\ self[t].kind = "Pipe"
  /\ log' = Append(log, Call("run_trial", t, cur[t]))
  /\ Raise(t, e)
  /\ UNCHANGED <<self, cur, model, tstate, restored, best, trials, fs, lastSave, lastIn>>

\* tuner.py:236: model.train(...), noted with what its evaluation yielded.
Train(out) == IF out = "multi" THEN "train_multi" ELSE "train_single"

\* tuner.py:235-237: get_scores hands on whatever train returned as val_loss.
get_scores(out) == out

\* Mutant of run_trial_Pipe: the metrics are reported twice (the call of the
\* commented-out variant, tuner.py:263, left in beside the one of line 233).
run_trial_Pipe_Twice(t, out) ==
  /\ pc[t] = "run_trial"
  /\ self[t].kind = "Pipe"
  /\ log' = log \o << Call("run_trial", t, cur[t]), Call(Train(out), t, cur[t]),
                      Call("update_trial", t, cur[t]), Call("update_trial", t, cur[t]) >>
  /\ trials' = [trials EXCEPT ![cur[t]] =
                  update_trial(update_trial(@, get_scores(out)), get_scores(out))]
  /\ model' = [model EXCEPT ![t] = NoModel]
  /\ pc' = [pc EXCEPT ![t] = "end_trial"]
  /\ UNCHANGED <<self, err, cur, tstate, restored, best, fs, lastSave, lastIn>>

\* Mutant of run_trial_Pipe: the scores are computed and dropped, update_trial
\* is not called.
run_trial_Pipe_NoUpdate(t, out) ==
  /\ pc[t] = "run_trial"
  /\ self[t].kind = "Pipe"
  /\ log' = log \o << Call("run_trial", t, cur[t]), Call(Train(out), t, cur[t]) >>
  /\ model' = [model EXCEPT ![t] = NoModel]
  /\ pc' = [pc EXCEPT ![t] = "end_trial"]
  /\ UNCHANGED <<self, err, cur, tstate, restored, best, trials, fs, lastSave, lastIn>>

\* tuner.py:229-233: PipeTuner.run_trial when the embedding program has set
\* self.config and bound Recommender: train, score, update_trial; the method
\* has no return statement, so it returns None.
run_trial_Pipe(t, out) ==
  /\ pc[t] = "run_trial"
  /\ self[t].kind = "Pipe"
  /\ log' = log \o << Call("run_trial", t, cur[t]), Call(Train(out), t, cur[t]),
                      Call("update_trial", t, cur[t]) >>
  /\ trials' = [trials EXCEPT ![cur[t]] = update_trial(@, get_scores(out))]
  /\ model' = [model EXCEPT ![t] = NoModel]
  /\ pc' = [pc EXCEPT ![t] = "end_trial"]
  /\ UNCHANGED <<self, err, cur, tstate, restored, best, fs, lastSave, lastIn>>

\* The trial count in a Stub's state ({} counts as none).
StubCount(st) == IF Len(st) = 2 THEN st[2] ELSE 0

\* A Stub's run_trial trains nothing, counts the trial and returns a model.
run_trial_Stub(t) ==
  /\ pc[t] = "run_trial"
  /\ self[t].kind = "Stub"
  /\ log' = Append(log, Call("run_trial", t, cur[t]))
  /\ model' = [model EXCEPT ![t] = WeightsOf(cur[t])]
  /\ tstate' = [tstate EXCEPT ![t] = <<"state", StubCount(@) + 1>>]
  /\ pc' = [pc EXCEPT ![t] = "end_trial"]
  /\ UNCHANGED <<self, err, cur, restored, best, trials, fs, lastSave, lastIn>>

\* The run_trial of a subclass that overrides run_trial alone returns a model.
run_trial_RunOnly(t) ==
  /\ pc[t] = "run_trial"
  /\ self[t].kind = "RunOnly"
  /\ log' = Append(log, Call("run_trial", t, cur[t]))
  /\ model' = [model EXCEPT ![t] = WeightsOf(cur[t])]
  /\ pc' = [pc EXCEPT ![t] = "end_trial"]
  /\ UNCHANGED <<self, err, cur, tstate, restored, best, trials, fs, lastSave, lastIn>>

\* A Stub's run_trial that raises.
run_trial_Stub_fail(t) ==
  /\ pc[t] = "run_trial"
  /\ self[t].kind = "Stub"
  /\ log' = Append(log, Call("run_trial", t, cur[t]))
  /\ Raise(t, "RuntimeError")
  /\ UNCHANGED <<self, cur, model, tstate, restored, best, trials, fs, lastSave, lastIn>>

\* ------------------------------------------------------------ on_trial_end
\* Mutant of OnTrialEndNext: the search space is updated before the weights
\* are saved.
OnTrialEndNext_SpaceFirst(step) ==
  CASE step = "end_trial"    -> "update_space"
    [] step = "update_space" -> "save_weights"
    [] step = "save_weights" -> "display"
    [] step = "display"      -> "save"
    [] step = "save"         -> "loop"

\* tuner.py:116-121: the statement that follows each statement of on_trial_end
\* ("loop": on_trial_end returned to search()).
OnTrialEndNext(step) ==
  CASE step = "end_trial"    -> "save_weights"
    [] step = "save_weights" -> "update_space"
    [] step = "update_space" -> "display"
    [] step = "display"      -> "save"
    [] step = "save"         -> "loop"

\* tuner.py:116-117: Oracle.end_trial(trial_id, COMPLETED)
on_trial_end_end_trial(t) ==
  /\ pc[t] = "end_trial"
  /\ log' = Append(log, Call("end_trial", t, cur[t]))
  /\ trials' = [trials EXCEPT ![cur[t]] = end_trial(@, COMPLETED)]
  /\ pc' = [pc EXCEPT ![t] = OnTrialEndNext("end_trial")]
  /\ UNCHANGED <<self, err, cur, model, tstate, restored, best, fs, lastSave, lastIn>>

\* Mutant of PipeTuner_save_weights: the weights are written under one name
\* for all trials (the directory of the first), not under the trial's own.
PipeTuner_save_weights_Shared(f, p, id, pipe) ==
  LET g == get_trial_dir(f, p, id)
  IN  IF pipe = NoModel
        THEN [fs |-> g, err |-> "AttributeError"]
        ELSE [fs |-> [g EXCEPT !.tdirs[p][1] = pipe], err |-> None]

\* tuner.py:267-269: PipeTuner.save_weights: get_trial_dir creates the trial
\* directory, then pipe.save_weights(trial_dir) writes the weights; on None
\* the attribute lookup raises and the directory stays as created.
PipeTuner_save_weights(f, p, id, pipe) ==
  LET g == get_trial_dir(f, p, id)
  IN  IF pipe = NoModel
        THEN [fs |-> g, err |-> "AttributeError"]
        ELSE [fs |-> [g EXCEPT !.tdirs[p][id] = pipe], err |-> None]

\* tuner.py:208-209: BaseTuner.save_weights
BaseTuner_save_weights(f) == [fs |-> f, err |-> "NotImplementedError"]

\* tuner.py:118: save_weights(trial, model); a Stub's hook writes the weights
\* the way PipeTuner's does.
on_trial_end_save_weights(t) ==
  /\ pc[t] = "save_weights"
  /\ log' = Append(log, Call("save_weights", t, cur[t]))
  /\ LET r == IF self[t].kind \in BaseHooks
                THEN BaseTuner_save_weights(fs)
                ELSE PipeTuner_save_weights(fs, self[t].path, cur[t], model[t])
     IN  /\ fs' = r.fs
         /\ IF r.err = None
              THEN /\ pc' = [pc EXCEPT ![t] = OnTrialEndNext("save_weights")]
                   /\ err' = err
              ELSE Raise(t, r.err)
  /\ UNCHANGED <<self, cur, model, tstate, restored, best, trials, lastSave, lastIn>>

\* tuner.py:119: Oracle.update_space(trial.hyperparameters)
on_trial_end_update_space(t) ==
  /\ pc[t] = "update_space"
  /\ log' = Append(log, Call("update_space", t, cur[t]))
  /\ pc' = [pc EXCEPT ![t] = OnTrialEndNext("update_space")]
  /\ UNCHANGED <<self, err, cur, model, tstate, restored, best, trials, fs, lastSave, lastIn>>

\* tuner.py:120: Display.on_trial_end(trial)
on_trial_end_display(t) ==
  /\ pc[t] = "display"
  /\ log' = Append(log, Call("display_on_trial_end", t, cur[t]))
  /\ pc' = [pc EXCEPT ![t] = OnTrialEndNext("display")]
  /\ UNCHANGED <<self, err, cur, model, tstate, restored, best, trials, fs, lastSave, lastIn>>

\* tuner.py:121: self.save(); on_trial_end returns and the loop goes on.
on_trial_end_save(t) ==
  /\ pc[t] = "save"
  /\ LET p == self[t].path
         i == self[t].tuner_id
         st == get_state(self[t].kind, tstate[t])
     IN  /\ fs' = save(fs, p, i, st)
         /\ lastSave' = [lastSave EXCEPT ![p][i] = st]
         /\ lastIn' = [lastIn EXCEPT ![p] = st]
  /\ log' = Append(log, Call("save", t, cur[t]))
  /\ pc' = [pc EXCEPT ![t] = OnTrialEndNext("save")]
  /\ cur' = [cur EXCEPT ![t] = 0]
  /\ model' = [model EXCEPT ![t] = NoModel]
  /\ UNCHANGED <<self, err, tstate, restored, best, trials>>

\* ------------------------------------------------------------ get_best_models
\* The trials the project's Oracle holds as COMPLETED.
Completed(p) ==
  {k \in 1..Len(trials) : trials[k].status = COMPLETED /\ trials[k].path = p}

Min(a, b) == IF a < b THEN a ELSE b

\* Oracle.get_best_trials(n): the n best COMPLETED trials (all of them when
\* there are fewer), best first; the ranking is the Oracle's own.
get_best_trials(p, n) ==
  {r \in [1..Min(n, Cardinality(Completed(p))) -> Completed(p)] :
     \A a, b \in DOMAIN r : a # b => r[a] # r[b]}

\* tuner.py:277-278: _get_pipeline: hyper_build(hyperparameters)
get_pipeline(hp) == [hp |-> hp, weights |-> Empty]

\* tuner.py:271-275: PipeTuner.load_model: the pipeline rebuilt from the
\* trial's hyperparameters with the weights of get_trial_dir(trial_id) loaded;
\* `f` is the file system after get_trial_dir.
load_model(f, p, id) == [get_pipeline(trials[id].hp) EXCEPT !.weights = f.tdirs[p][id]]

RECURSIVE LoadAll_Reversed(_, _, _)
\* Mutant of LoadAll: the models come back in the reverse of the ranking.
LoadAll_Reversed(f, p, r) ==
  IF r = <<>> THEN [fs |-> f, models |-> <<>>]
  ELSE LET g == get_trial_dir(f, p, Head(r))
           rest == LoadAll_Reversed(g, p, Tail(r))
       IN  [fs |-> rest.fs, models |-> rest.models \o <<load_model(g, p, Head(r))>>]

RECURSIVE LoadAll(_, _, _)
\* tuner.py:205: [self.load_model(trial) for trial in best_trials], with the
\* file system the get_trial_dir calls leave.
LoadAll(f, p, r) ==
  IF r = <<>> THEN [fs |-> f, models |-> <<>>]
  ELSE LET g == get_trial_dir(f, p, Head(r))
           rest == LoadAll(g, p, Tail(r))
       IN  [fs |-> rest.fs, models |-> <<load_model(g, p, Head(r))>> \o rest.models]

\* tuner.py:204-206: get_best_models(num_models); BaseTuner.load_model raises
\* (tuner.py:211-212) as soon as there is a trial to load.  An instance is
\* asked at most once, before or after its search().
get_best_models(t, n, r) ==
  /\ pc[t] \in {"ready", "done"}
  /\ ~best[t].called
  /\ r \in get_best_trials(self[t].path, n)
  /\ log' = Append(log, Call("get_best_trials", t, 0))
  /\ IF self[t].kind \in BaseHooks
       THEN /\ best' = [best EXCEPT ![t] =
                 [called |-> TRUE, n |-> n, trials |-> r, models |-> <<>>,
                  avail |-> Cardinality(Completed(self[t].path)),
                  err |-> IF r = <<>> THEN None ELSE "NotImplementedError"]]
            /\ fs' = fs
       ELSE LET res == LoadAll(fs, self[t].path, r)
            IN  /\ best' = [best EXCEPT ![t] =
                      [called |-> TRUE, n |-> n, trials |-> r,
                       avail |-> Cardinality(Completed(self[t].path)),
                       models |-> res.models, err |-> None]]
                /\ fs' = res.fs
  /\ UNCHANGED <<pc, self, err, cur, model, tstate, restored, trials, lastSave, lastIn>>

\* The program ends without calling search().
exit(t) ==
  /\ pc[t] = "ready"
  /\ pc' = [pc EXCEPT ![t] = "exited"]
  /\ UNCHANGED <<self, err, cur, model, tstate, restored, best, trials, log, fs, lastSave, lastIn>>

\* ------------------------------------------------------------ specification
TunerIdArgs == {NoArg} \cup {<<i>> : i \in TunerIds}

Next ==
  \E t \in Tuners :
    \/ \E kind \in Kinds, oracleOk \in BOOLEAN, modelOk \in BOOLEAN,
          directory \in Directories, project_name \in ProjectNames,
          tuner_id \in TunerIdArgs, overwrite \in BOOLEAN :
         /\ kind # "Pipe" => modelOk
         /\ init_args(t, kind, oracleOk, modelOk, directory, project_name,
                      tuner_id, overwrite)
    \/ init_overwrite(t)
    \/ init_oracle_bad(t)
    \/ init_oracle(t)
    \/ init_reload(t)
    \/ PipeTuner_init_bad(t)
    \/ PipeTuner_init(t)
    \/ \E status \in Statuses : search(t, status)
    \/ run_trial_Base(t)
    \/ \E e \in PipeFailures : run_trial_Pipe_fail(t, e)
    \/ \E out \in Outputs : run_trial_Pipe(t, out)
    \/ run_trial_Stub(t)
    \/ run_trial_Stub_fail(t)
    \/ run_trial_RunOnly(t)
    \/ on_trial_end_end_trial(t)
    \/ on_trial_end_save_weights(t)
    \/ on_trial_end_update_space(t)
    \/ on_trial_end_display(t)
    \/ on_trial_end_save(t)
    \/ \E n \in 1..MaxModels : \E r \in get_best_trials(self[t].path, n) :
         get_best_models(t, n, r)
    \/ exit(t)

Spec == Init /\ [][Next]_vars

\* ------------------------------------------------------------ workers
\* Several tuner instances at once ("Used only with multi-worker
\* DistributionStrategies", the tuner_id docstring): each instance is a worker
\* process of its own, all of them against the same Oracle and file system.
\* The project the workers share, and its directory once created.
WorkerPath == <<".", "untitled_project">>

\* A worker is a tuner with hooks of its own: with BaseTuner's a search()
\* raises at its first trial.
WorkerKinds == Kinds \ BaseHooks

\* What BaseTuner.__init__ (tuner.py:72-96) leaves in a worker constructed
\* with a valid oracle and model and without overwrite.
WorkerSelf(kind, tuner_id) ==
  [kind |-> kind, oracleOk |-> TRUE, modelOk |-> TRUE, path |-> WorkerPath,
   tuner_id |-> tuner_id, overwrite |-> FALSE, entry |-> EmptyFs]

RECURSIVE ConstructedLog(_)
\* The Oracle calls of the constructors of workers 1..n (tuner.py:81-91).
ConstructedLog(n) ==
  IF n = 0 THEN <<>>
  ELSE ConstructedLog(n - 1) \o
         << Call("set_project_dir", n, 0), Call("get_space", n, 0),
            Call("update_space", n, 0) >>

\* Every worker has been constructed on a new project, before any of them
\* calls search(): no tuner file is there to reload, the project directory
\* was created by the read of _get_tuner_fname (tuner.py:95).
InitWorkers ==
  /\ pc = [t \in Tuners |-> "ready"]
  /\ \E kinds \in [Tuners -> WorkerKinds], ids \in [Tuners -> TunerIds] :
       /\ self = [t \in Tuners |-> WorkerSelf(kinds[t], ids[t])]
       /\ tstate = [t \in Tuners |->
                     IF kinds[t] = "Stub" THEN <<"state", 0>> ELSE EmptyState]
  /\ err = [t \in Tuners |-> None]
  /\ cur = [t \in Tuners |-> 0]
  /\ model = [t \in Tuners |-> NoModel]
  /\ restored = [t \in Tuners |-> NoState]
  /\ best = [t \in Tuners |-> NoBest]
  /\ trials = <<>>
  /\ log = ConstructedLog(MaxTuners)
  /\ fs = project_dir(EmptyFs, WorkerPath)
  /\ lastSave = [p \in Paths |-> [i \in TunerIds |-> NoState]]
  /\ lastIn = [p \in Paths |-> NoState]

\* One step of worker t: one of the statements of search() or on_trial_end.
WorkerStep(t) ==
  \/ \E status \in Statuses : Len(trials) < MaxWorkerTrials /\ search(t, status)
  \/ \E e \in PipeFailures : run_trial_Pipe_fail(t, e)
  \/ \E out \in Outputs : run_trial_Pipe(t, out)
  \/ run_trial_Stub(t)
  \/ run_trial_Stub_fail(t)
  \/ on_trial_end_end_trial(t)
  \/ on_trial_end_save_weights(t)
  \/ on_trial_end_update_space(t)
  \/ on_trial_end_display(t)
  \/ on_trial_end_save(t)

\* The workers' steps interleave in every order.
NextWorkers == \E t \in Tuners : WorkerStep(t)

SpecWorkers == InitWorkers /\ [][NextWorkers]_vars

\* ------------------------------------------------------------ caller
\* The last instance does not search: it is the program that asks for the
\* best models while the other instances run search().
Caller == MaxTuners

NextCaller ==
  \/ \E t \in Tuners \ {Caller} : WorkerStep(t)
  \/ \E n \in 1..MaxModels : \E r \in get_best_trials(self[Caller].path, n) :
       get_best_models(Caller, n, r)

SpecCaller == InitWorkers /\ [][NextCaller]_vars

\* ============================================================ claims
\* An instance whose process is there: constructed or under construction.
Live(t) == pc[t] \notin {"new", "gone"}

\* The trials create_trial returned to instance t, in order.
TrialsOf(t) == SelectSeq([k \in 1..Len(trials) |-> k], LAMBDA k : trials[k].owner = t)

\* The trial ids of a sequence of calls.
IdsOf(calls) == [k \in 1..Len(calls) |-> calls[k].trial]

IsPrefix(a, b) == Len(a) <= Len(b) /\ \A k \in 1..Len(a) : a[k] = b[k]

\* ---- C1
\* C1: search() has returned exactly when create_trial has answered STOPPED;
\* it returns on the first STOPPED answer (no trial is requested after it), so
\* answers of IDLE and RUNNING alone never make it return.
C1_ReturnsIffStopped ==
  \A t \in Tuners : Live(t) =>
    LET mine == TrialsOf(t)
    IN  /\ (pc[t] = "done") <=> (\E k \in 1..Len(mine) : trials[mine[k]].ret = STOPPED)
        /\ \A k \in 1..Len(mine) : trials[mine[k]].ret = STOPPED => k = Len(mine)

\* search() has returned after IDLE and RUNNING answers and then one STOPPED.
C1_Witness ==
  \E t \in Tuners :
    /\ pc[t] = "done"
    /\ \E a, b \in 1..Len(trials) :
         /\ trials[a].owner = t /\ trials[a].ret = IDLE
         /\ trials[b].owner = t /\ trials[b].ret = RUNNING

\* ---- C2
OnTrialEndSteps ==
  <<"end_trial", "save_weights", "update_space", "display_on_trial_end", "save">>

OnTrialEndOps == {OnTrialEndSteps[k] : k \in 1..Len(OnTrialEndSteps)}

\* The steps of on_trial_end performed for trial id, in order.
StepsOn(id) ==
  LET calls == CallsOn(id, OnTrialEndOps)
  IN  [k \in 1..Len(calls) |-> calls[k].op]

\* C2: the steps on_trial_end has performed for a trial are always an initial
\* part of end_trial, save_weights, update_space, Display.on_trial_end, save,
\* each at most once and in that order; when on_trial_end has returned for the
\* trial, they are all five.  (A step that raises ends the execution there.)
C2_FiveStepsInOrder ==
  \A id \in 1..Len(trials) :
    /\ IsPrefix(StepsOn(id), OnTrialEndSteps)
    /\ \A t \in Tuners :
         (Live(t) /\ trials[id].owner = t /\ trials[id].ends > 0 /\ cur[t] # id)
           => StepsOn(id) = OnTrialEndSteps

\* on_trial_end has run to its end for some trial.
C2_Witness ==
  \E id \in 1..Len(trials) :
    /\ StepsOn(id) = OnTrialEndSteps
    /\ cur[trials[id].owner] # id

\* ---- C3
\* C3: when search() has returned, run_trial and on_trial_end (its first step,
\* end_trial, and its last, save) were each called once per RUNNING trial, in
\* the order the Oracle produced them, and for no IDLE or STOPPED trial.
C3_OncePerRunningTrial ==
  \A t \in Tuners : pc[t] = "done" =>
    LET running == SelectSeq(TrialsOf(t), LAMBDA k : trials[k].ret = RUNNING)
    IN  /\ IdsOf(CallsOf(t, {"run_trial"})) = running
        /\ IdsOf(CallsOf(t, {"end_trial"})) = running
        /\ IdsOf(CallsOf(t, {"save"})) = running

\* search() has returned after RUNNING trials it completed and an IDLE answer,
\* having used every answer the bound allows.
C3_Witness ==
  \E t \in Tuners :
    /\ pc[t] = "done"
    /\ Len(CallsOf(t, {"save"})) >= 1
    /\ Len(TrialsOf(t)) = MaxTrials
    /\ \E a \in 1..Len(trials) : trials[a].owner = t /\ trials[a].ret = IDLE

\* ---- C4
\* create_trial has just answered instance t with an IDLE trial.
IdleAnswer(t) ==
  /\ Len(trials') = Len(trials) + 1
  /\ trials'[Len(trials')].owner = t
  /\ trials'[Len(trials')].ret = IDLE

\* C4: a pass of the loop in which create_trial answers IDLE makes no call but
\* that create_trial, changes nothing on disk, no trial record, nothing the
\* tuner holds, and leaves the instance at the loop head, from where the only
\* thing it does is request another trial.
C4_IdleNoSideEffects ==
  [][\A t \in Tuners :
       /\ IdleAnswer(t) =>
            /\ log' = Append(log, Call("create_trial", t, Len(trials) + 1))
            /\ SubSeq(trials', 1, Len(trials)) = trials
            /\ fs' = fs /\ lastSave' = lastSave /\ lastIn' = lastIn
            /\ tstate' = tstate /\ model' = model /\ err' = err
            /\ restored' = restored /\ best' = best /\ self' = self
            /\ pc'[t] = "loop"
       /\ (pc[t] = "loop" /\ (pc'[t] # "loop" \/ log' # log)) =>
            log' = Append(log, Call("create_trial", t, Len(trials) + 1))
    ]_vars

\* An IDLE answer has just been given to an instance that had already saved
\* a trial's weights and its own state.
C4_Witness ==
  \E t \in Tuners :
    /\ pc[t] = "loop"
    /\ Len(trials) > 0
    /\ trials[Len(trials)].owner = t
    /\ trials[Len(trials)].ret = IDLE
    /\ Len(CallsOf(t, {"save"})) > 0

\* ---- C5
\* C5: for every trial, update_trial is called at most once and only before
\* the trial's end_trial; end_trial is called at most once, only on a trial
\* create_trial returned as RUNNING, and leaves it terminal.
C5_UpdateAndEndAtMostOnce ==
  /\ \A id \in 1..Len(trials) :
       /\ Len(trials[id].metrics) <= 1
       /\ trials[id].ends <= 1
       /\ trials[id].ends = 1 =>
            trials[id].ret = RUNNING /\ trials[id].status \in {COMPLETED, "DISCARDED"}
  /\ \A a, b \in 1..Len(log) :
       (/\ log[a].op = "end_trial"
        /\ log[b].op = "update_trial"
        /\ log[a].trial = log[b].trial) => b < a

\* A PipeTuner trial whose metrics were reported once and which was then ended.
C5_Witness ==
  \E id \in 1..Len(trials) :
    /\ Len(trials[id].metrics) = 1
    /\ trials[id].ends = 1
    /\ Live(trials[id].owner)
    /\ self[trials[id].owner].kind = "Pipe"

\* ---- C6
\* What the project directory held when instance t's constructor was entered.
Found(t) == Entries(self[t].entry, self[t].path)

\* C6: when a tuner has been constructed with overwrite=True, its project
\* directory holds no trial directory and no tuner state file, and no state
\* was reloaded.
C6_OverwriteErases ==
  \A t \in Tuners : (pc[t] = "ready" /\ self[t].overwrite) =>
    /\ Entries(fs, self[t].path) = {}
    /\ restored[t] = NoState
    /\ CallsOf(t, {"reload"}) = <<>>
    /\ tstate[t] \in {EmptyState, <<"state", 0>>}

\* A tuner constructed with overwrite=True on a project directory that held a
\* trial directory and a tuner state file.
C6_Witness ==
  \E t \in Tuners :
    /\ pc[t] = "ready" /\ self[t].overwrite
    /\ \E i \in TunerIds : <<"tuner", i>> \in Found(t)
    /\ \E k \in TrialIds : <<"trial", k>> \in Found(t)

\* ---- C7
\* C7 as stated: a tuner constructed without overwrite on a project in which
\* a prior run saved tuner state reloads the state last saved in that
\* (directory, project_name).
C7_PairAloneDetermines ==
  \A t \in Tuners :
    (/\ pc[t] = "ready" /\ ~self[t].overwrite
     /\ \E i \in TunerIds : <<"tuner", i>> \in Found(t))
      => restored[t] = lastIn[self[t].path]

\* C7 as amended: a tuner constructed without overwrite reloads the state last
\* saved under its (directory, project_name) by a tuner of its own tuner_id,
\* when that tuner_<tuner_id>.json is there, and reloads nothing otherwise.
C7_ReloadsOwnTunerFile ==
  \A t \in Tuners : (pc[t] = "ready" /\ ~self[t].overwrite) =>
    IF <<"tuner", self[t].tuner_id>> \in Found(t)
      THEN /\ restored[t] = lastSave[self[t].path][self[t].tuner_id]
           /\ self[t].kind = "Stub" => tstate[t] = restored[t]
      ELSE restored[t] = NoState

\* A Stub constructed without overwrite that took over the trial count a
\* prior run had saved.
C7_Witness ==
  \E t \in Tuners :
    /\ pc[t] = "ready" /\ ~self[t].overwrite
    /\ self[t].kind = "Stub"
    /\ Len(restored[t]) = 2
    /\ StubCount(tstate[t]) > 0

\* ---- C8
\* C8: get_best_models(n) of a tuner with a load_model hook returns one model
\* per trial of Oracle.get_best_trials(n), the i-th being load_model of the
\* i-th ranked trial: n models when the Oracle holds at least n COMPLETED
\* trials, all of them otherwise.
C8_BestModelsFollowRanking ==
  \A t \in Tuners : (best[t].called /\ self[t].kind \notin BaseHooks) =>
    LET b == best[t]
    IN  /\ Len(b.models) = Len(b.trials)
        /\ Len(b.models) = Min(b.n, b.avail)
        /\ \A k \in 1..Len(b.models) :
             /\ b.models[k].hp = trials[b.trials[k]].hp
             /\ b.models[k] = load_model(fs, self[t].path, b.trials[k])

\* get_best_models(2) returned two models whose ranking is not the order in
\* which the trials were created.
C8_Witness ==
  \E t \in Tuners :
    /\ best[t].called /\ self[t].kind \notin BaseHooks
    /\ best[t].n = 2 /\ Len(best[t].models) = 2
    /\ best[t].trials[1] > best[t].trials[2]

\* ---- C9
ConstructionErrors == {"ValueError", "TypeError"}

\* C9 as stated: when the constructor raises on a wrong oracle or a wrong
\* model, the file system is as it was on entry, no Oracle method was called
\* and no tuner state was reloaded.
C9_FailsBeforeTouchingAnything ==
  \A t \in Tuners : (pc[t] = "raised" /\ err[t] \in ConstructionErrors) =>
    /\ fs = self[t].entry
    /\ log = <<>>
    /\ restored[t] = NoState

\* ---- C10
\* C10 as stated: a trial whose evaluation in PipeTuner.run_trial yielded more
\* than one scoring output makes run_trial raise a configuration error, is
\* never reported through update_trial and is not COMPLETED.
C10_MultiOutputRejected ==
  \A a \in 1..Len(log) : log[a].op = "train_multi" =>
    /\ trials[log[a].trial].metrics = <<>>
    /\ trials[log[a].trial].status # COMPLETED
    /\ pc[log[a].tuner] = "raised"
    /\ err[log[a].tuner] = "ValueError"

\* ---- C11
\* run_trial of instance t leaves by an exception in this step.
RunTrialFails(t) == pc[t] = "run_trial" /\ pc'[t] = "raised"

\* The failures run_trial can leave by.
RunTrialErrors == PipeFailures \cup {"NotImplementedError", "RuntimeError"}

\* C11: the step in which run_trial raises changes no file (the tuner state
\* files and the trial directories of the earlier trials stay as they were),
\* changes no trial record (end_trial is not called, the trial stays RUNNING),
\* writes no artifact for the failed trial, and makes search() raise; an
\* instance whose search() raised makes no further call (no create_trial).
C11_RunTrialFailureIsolated ==
  [][\A t \in Tuners :
       /\ RunTrialFails(t) =>
            /\ err'[t] \in RunTrialErrors
            /\ fs' = fs /\ lastSave' = lastSave /\ lastIn' = lastIn
            /\ trials' = trials
            /\ trials[cur[t]].ends = 0
            /\ trials[cur[t]].status = RUNNING
            /\ fs.tdirs[self[t].path][cur[t]] = NoDir
            /\ log' = Append(log, Call("run_trial", t, cur[t]))
       /\ pc[t] = "raised" =>
            /\ pc'[t] \in {"raised", "gone"}
            /\ Len(log') > Len(log) => log'[Len(log')].tuner # t
    ]_vars

\* run_trial has raised for a later trial of a search that had completed a
\* trial before: its weights and the tuner state are on disk.
C11_Witness ==
  \E t \in Tuners :
    /\ pc[t] = "raised" /\ err[t] \in RunTrialErrors
    /\ log # <<>> /\ log[Len(log)] = Call("run_trial", t, cur[t])
    /\ Len(CallsOf(t, {"save"})) >= 1
    /\ fs.files[self[t].path][self[t].tuner_id] # NoFile
    /\ \E k \in TrialIds : fs.tdirs[self[t].path][k] = WeightsOf(k)

\* ---- C12
\* C12 as stated: once search() is past the save_weights step for a PipeTuner
\* trial the Oracle records as COMPLETED, save_weights was called once for it
\* and the model run_trial built and trained is in the trial's own directory.
C12_ArtifactWrittenOnCompletion ==
  \A id \in 1..Len(trials) :
    LET t == trials[id].owner
    IN  (/\ Live(t) /\ self[t].kind = "Pipe"
         /\ trials[id].status = COMPLETED
         /\ ~(cur[t] = id /\ pc[t] = "save_weights"))
          => /\ Len(CallsOn(id, {"save_weights"})) = 1
             /\ fs.tdirs[trials[id].path][id] \notin {NoDir, Empty}

\* ---- C13
\* The tuner state file instance t saves to.
TunerFileOf(t) == get_tuner_fname(self[t].path, self[t].tuner_id)

\* The files instance t has written in search(): its tuner state file once it
\* has saved, and the directory of every trial it called save_weights for.
WritesOf(t) ==
  LET saved == CallsOf(t, {"save_weights"})
  IN  (IF CallsOf(t, {"save"}) = <<>> THEN {} ELSE {<<"tuner", TunerFileOf(t)>>})
        \cup {<<"trial", self[t].path, saved[k].trial>> : k \in 1..Len(saved)}

\* The state instance t wrote at its last save (a Stub's state is the number
\* of trials it has run).
LastSavedBy(t) ==
  get_state(self[t].kind, <<"state", Len(CallsOf(t, {"save"}))>>)

\* C13: for a worker whose tuner_id no other worker has, under every
\* interleaving: it writes no file another worker writes, the trial
\* directories it writes are those of trials the Oracle handed to it and hold
\* the weights it saved, and its tuner state file holds the state it saved
\* last.
C13_WorkersWriteDisjointFiles ==
  \A t \in Tuners :
    (\A u \in Tuners \ {t} : self[u].tuner_id # self[t].tuner_id) =>
      /\ \A u \in Tuners \ {t} : WritesOf(t) \cap WritesOf(u) = {}
      /\ \A k \in 1..Len(CallsOf(t, {"save_weights"})) :
           LET id == CallsOf(t, {"save_weights"})[k].trial
           IN  /\ trials[id].owner = t
               /\ self[t].kind = "Stub" => fs.tdirs[self[t].path][id] = WeightsOf(id)
      /\ CallsOf(t, {"save"}) # <<>> =>
           Stateful_reload(fs, TunerFileOf(t)) = LastSavedBy(t)

\* Two workers with distinct tuner_ids have each completed a trial and saved
\* their state, the steps of one on_trial_end falling between the steps of
\* the other.
C13_Witness ==
  \E t, u \in Tuners :
    /\ t # u /\ self[t].tuner_id # self[u].tuner_id
    /\ CallsOf(t, {"save"}) # <<>> /\ CallsOf(u, {"save"}) # <<>>
    /\ \E a, b, c \in 1..Len(log) :
         /\ a < b /\ b < c
         /\ log[a] = Call("end_trial", t, log[a].trial)
         /\ log[b] = Call("save_weights", u, log[b].trial)
         /\ log[c] = Call("save", t, log[a].trial)

\* ---- C14
DisplayOps == {"display_on_trial_begin", "display_on_trial_end"}

\* C14 as stated: every run_trial call is preceded by one
\* Display.on_trial_begin call for its trial, every Display.on_trial_end call
\* comes once, after the trial's end_trial, and the Display is called for no
\* IDLE or STOPPED trial.
C14_DisplayAtBothBoundaries ==
  \A a \in 1..Len(log) :
    /\ log[a].op = "run_trial" =>
         Len(SelectSeq(SubSeq(log, 1, a - 1),
               LAMBDA c : c = Call("display_on_trial_begin", log[a].tuner, log[a].trial))) = 1
    /\ log[a].op = "display_on_trial_end" =>
         /\ \E b \in 1..(a - 1) : log[b] = Call("end_trial", log[a].tuner, log[a].trial)
         /\ Len(CallsOn(log[a].trial, {"display_on_trial_end"})) = 1
    /\ log[a].op \in DisplayOps => trials[log[a].trial].ret = RUNNING

\* ---- C15
TrainOps == {"train_single", "train_multi"}

\* The positions in the log of the calls among `ops` about trial id.
PositionsOf(id, ops) == {b \in 1..Len(log) : log[b].op \in ops /\ log[b].trial = id}

\* C15: when a PipeTuner has called end_trial(trial_id, COMPLETED), it has
\* called update_trial for that trial exactly once, before the end_trial and
\* after the trial's training and evaluation, and the Oracle holds exactly
\* the one metrics report.
C15_MetricsOnceBeforeCompletion ==
  \A a \in 1..Len(log) :
    (log[a].op = "end_trial" /\ self[log[a].tuner].kind = "Pipe") =>
      LET id == log[a].trial
          ups == PositionsOf(id, {"update_trial"})
      IN  /\ Cardinality(ups) = 1
          /\ \A b \in ups :
               /\ b < a
               /\ \E c \in PositionsOf(id, TrainOps) : c < b
          /\ Len(trials[id].metrics) = 1

\* A PipeTuner has called end_trial for a trial it trained and scored.
C15_Witness ==
  \E a \in 1..Len(log) :
    /\ log[a].op = "end_trial" /\ self[log[a].tuner].kind = "Pipe"
    /\ PositionsOf(log[a].trial, {"train_single"}) # {}
    /\ trials[log[a].trial].status = COMPLETED

\* ---- C16
\* save_weights has returned for trial id in the lifetime of the instances
\* that are there (the statement after it was reached).
WeightsSaved(id) == PositionsOf(id, {"update_space"}) # {}

\* C16: every model get_best_models' load_model returns for a trial is the
\* pipeline built from that trial's hyperparameters; its weights are those
\* read from the trial's directory and never another trial's: exactly the
\* weights save_weights wrote for that trial when it has returned for it,
\* whatever was saved for other trials meanwhile.
C16_SaveLoadRoundTrip ==
  \A t \in Tuners : (best[t].called /\ self[t].kind \notin BaseHooks) =>
    \A k \in 1..Len(best[t].models) :
      LET id == best[t].trials[k]
          m == best[t].models[k]
      IN  /\ m.hp = SampleOf(id)
          /\ get_pipeline(m.hp) = [m EXCEPT !.weights = Empty]
          /\ m.weights \in {Empty, WeightsOf(id)}
          /\ WeightsSaved(id) => m.weights = WeightsOf(id)

\* An instance saved the weights of one trial, then those of another, and
\* then loaded the model of the first.
C16_Witness ==
  \E t \in Tuners :
    /\ best[t].called /\ self[t].kind \notin BaseHooks
    /\ \E k \in 1..Len(best[t].models) : \E other \in 1..Len(trials) :
         /\ best[t].trials[k] < other
         /\ WeightsSaved(best[t].trials[k]) /\ WeightsSaved(other)
         /\ best[t].models[k].weights = WeightsOf(best[t].trials[k])

\* ---- C17
\* The calls search() makes for a trial it runs: run_trial with what it
\* does, and the steps of on_trial_end.
TrialOps == {"run_trial", "update_trial"} \cup TrainOps \cup OnTrialEndOps

\* C17: every call of run_trial, of the training, of update_trial and of a
\* step of on_trial_end is about a trial create_trial returned as RUNNING, and
\* on_trial_end is entered only after run_trial was called for the trial; a
\* trial returned as IDLE or STOPPED is never COMPLETED, never ended, has no
\* metrics and no directory.
C17_OnlyRunningTrialsRun ==
  /\ \A a \in 1..Len(log) :
       (log[a].op \in TrialOps /\ log[a].trial # 0) =>
         /\ trials[log[a].trial].ret = RUNNING
         /\ log[a].op \in OnTrialEndOps =>
              \E b \in 1..(a - 1) : log[b] = Call("run_trial", log[a].tuner, log[a].trial)
  /\ \A id \in 1..Len(trials) :
       trials[id].ret # RUNNING =>
         /\ trials[id].status # COMPLETED
         /\ trials[id].ends = 0
         /\ trials[id].metrics = <<>>
         /\ \A p \in Paths : fs.tdirs[p][id] = NoDir

\* One search() was answered IDLE, RUNNING and STOPPED: the RUNNING trial is
\* COMPLETED with its weights on disk, the other two were left alone.
C17_Witness ==
  \E t \in Tuners : \E i, r, s \in 1..Len(trials) :
    /\ trials[i].owner = t /\ trials[r].owner = t /\ trials[s].owner = t
    /\ trials[i].ret = IDLE /\ trials[s].ret = STOPPED
    /\ trials[r].ret = RUNNING /\ trials[r].status = COMPLETED
    /\ Live(t) /\ fs.tdirs[self[t].path][r] = WeightsOf(r)

\* ---- C18
NotImplemented == "NotImplementedError"

\* C18: BaseTuner.run_trial, BaseTuner.save_weights and BaseTuner.load_model
\* raise the not-implemented error.  Once BaseTuner.run_trial was called in
\* search(), search() has raised that error: run_trial was called once (no
\* retry), it is the instance's last call (no further create_trial), end_trial
\* was not called and the trial is still RUNNING, and no tuner state was saved.
\* Once BaseTuner.save_weights was called, search() has raised the error
\* before update_space and save.  get_best_models with a trial to load raises
\* it from load_model and returns no model.
C18_BaseHooksNotImplemented ==
  \A t \in Tuners : Live(t) =>
    /\ (self[t].kind = "Base" /\ CallsOf(t, {"run_trial"}) # <<>>) =>
         LET calls == CallsOf(t, {"run_trial"})
             mine == CallsOf(t, TrialOps \cup {"create_trial"})
         IN  /\ pc[t] = "raised" /\ err[t] = NotImplemented
             /\ Len(calls) = 1
             /\ mine[Len(mine)] = calls[1]
             /\ CallsOf(t, {"end_trial", "save_weights", "save"}) = <<>>
             /\ trials[calls[1].trial].status = RUNNING
             /\ trials[calls[1].trial].ends = 0
             /\ fs.files[self[t].path] = self[t].entry.files[self[t].path]
                  \/ self[t].overwrite
    /\ (self[t].kind \in BaseHooks /\ CallsOf(t, {"save_weights"}) # <<>>) =>
         /\ pc[t] = "raised" /\ err[t] = NotImplemented
         /\ Len(CallsOf(t, {"save_weights"})) = 1
         /\ \A k \in 1..Len(CallsOf(t, {"update_space", "save"})) :
              CallsOf(t, {"update_space", "save"})[k].trial = 0
    /\ (self[t].kind \in BaseHooks /\ best[t].called /\ best[t].trials # <<>>) =>
         /\ best[t].err = NotImplemented
         /\ best[t].models = <<>>

\* A BaseTuner was asked for the best models of a project that holds a
\* COMPLETED trial, then ran search() and was answered a RUNNING trial: both
\* calls raised the not-implemented error.
C18_Witness ==
  \E t \in Tuners :
    /\ self[t].kind = "Base"
    /\ pc[t] = "raised" /\ err[t] = NotImplemented
    /\ CallsOf(t, {"run_trial"}) # <<>>
    /\ best[t].called /\ best[t].err = NotImplemented

\* BaseTuner.save_weights was called by the search() of a subclass that
\* overrides run_trial alone.
C18_SaveWeightsReached ==
  \E t \in Tuners :
    /\ self[t].kind = "RunOnly"
    /\ pc[t] = "raised" /\ err[t] = NotImplemented
    /\ CallsOf(t, {"save_weights"}) # <<>>

\* ---- C19
\* C19 as stated: whenever the Oracle holds a trial as COMPLETED, the trial's
\* directory holds its weights, and no model get_best_models loaded was read
\* from a trial directory without weights.
C19_CompletedHasArtifact ==
  /\ \A id \in 1..Len(trials) :
       trials[id].status = COMPLETED =>
         fs.tdirs[trials[id].path][id] \notin {NoDir, Empty}
  /\ \A t \in Tuners : best[t].called =>
       \A k \in 1..Len(best[t].models) : best[t].models[k].weights # Empty

\* The caller loaded a model without weights for a trial whose worker was
\* between end_trial and save_weights, and the worker then wrote the weights.
C19_LoadedBeforeWritten ==
  \E k \in 1..Len(best[Caller].models) :
    LET id == best[Caller].trials[k]
    IN  /\ best[Caller].models[k].weights = Empty
        /\ fs.tdirs[WorkerPath][id] = WeightsOf(id)

====
